---- MODULE Spec2Model ----
(***************************************************************************)
(* Process handle of native/p/src/lib.rs (native/px/src/lib.rs is the same *)
(* code without comments): one spawned child process, the five mutex       *)
(* guarded slots of ProcessResource, and the NIFs signal_nif, wait_nif,    *)
(* alive_nif, write_stdin_nif, close_*_nif, read_*_nif run concurrently.   *)
(* Every NIF invocation is one call; a call advances one lock acquisition  *)
(* or one syscall at a time, so that all interleavings are explored.       *)
(***************************************************************************)
EXTENDS Integers, FiniteSets, Sequences, TLC

\* Number of NIF invocations explored on the one handle when the callers
\* use signal, wait and poll only.
NCalls == 3

\* Number of NIF invocations explored when the callers use all nine NIFs.
NIoCalls == 2

Calls == 1..(IF NCalls > NIoCalls THEN NCalls ELSE NIoCalls)

\* Exit codes the child program may pass to exit().
ExitCodes == {0, 3}

\* Signal numbers handed to signal_nif: 15 (SIGTERM) and 99 (no signal).
SignalInputs == {15, 99}

\* The slots of ProcessResource, each behind its own Mutex.
Locks == {"child", "cached_exit_code", "stdin_pipe", "stdout_pipe", "stderr_pipe"}

Streams == {"stdin_pipe", "stdout_pipe", "stderr_pipe"}

\* signal_nif, wait_nif, alive_nif
ExitOps == {"signal", "wait", "alive"}

Ops == ExitOps \cup {"write_stdin", "close_stdin", "close_stdout", "close_stderr",
                     "read_stdout", "read_stderr"}

VARIABLES
    proc,        \* OS view of the child: "running", "zombie", "reaped", "lost"
    exitStatus,  \* the termination status the kernel holds or held
    sent,        \* signals delivered to the child while it was running
    child,       \* ProcessResource.child: Option<Child>, with std's status memo
    cached,      \* ProcessResource.cached_exit_code: Option<i32>
    pipe,        \* stdin_pipe / stdout_pipe / stderr_pipe: TRUE when Some
    lock,        \* owner of each Mutex (0: free)
    op,          \* the NIF each call runs
    pc,          \* where each call stands in its NIF
    tmp,         \* a call's local: the signal argument, or the computed code
    res,         \* a call's return value
    began,       \* what had been observed on the handle when the call began
    begun,       \* number of calls begun so far
    scenario,    \* the NIFs the callers of this run use
    sp,          \* spawn_nif: its arguments, its position and what it did
    io,          \* the OS pipes behind the stream slots and their far ends
    hist         \* history of the syscalls issued for the child

vars == <<proc, exitStatus, sent, child, cached, pipe, lock, op, pc, tmp, res,
          began, begun, scenario, sp, io, hist>>

----------------------------------------------------------------------------
\* Values

NoStatus == [kind |-> "none", val |-> 0]

Exited(n) == [kind |-> "exited", val |-> n]

Signaled(s) == [kind |-> "signaled", val |-> s]

\* A status that carries neither an exit code nor a signal.
OtherStatus == [kind |-> "other", val |-> 0]

None == [some |-> FALSE, code |-> 0]

Some(n) == [some |-> TRUE, code |-> n]

NoRes == [tag |-> "none", val |-> 0]

R(t, v) == [tag |-> t, val |-> v]

\* Variant: a signal termination yields the bare signal number.
exit_status_to_code_raw_signal(status) ==
    IF status.kind = "exited" THEN status.val
    ELSE IF status.kind = "signaled" THEN status.val
    ELSE -1

\* exit_status_to_code: the exit code, else 128 + signal, else -1.
exit_status_to_code(status) ==
    IF status.kind = "exited" THEN status.val
    ELSE IF status.kind = "signaled" THEN 128 + status.val
    ELSE -1

\* Signal::try_from(signal): the numbers nix knows as signals.
ValidSignal(s) == s \in 1..31

\* Variant: read_stderr_nif and close_stderr_nif lock the stdout slot.
StreamOfStdoutForStderr(o) ==
    CASE o \in {"write_stdin", "close_stdin"} -> "stdin_pipe"
      [] o \in {"close_stdout", "read_stdout", "close_stderr", "read_stderr"} -> "stdout_pipe"
      [] OTHER -> "none"

StreamOf(o) ==
    CASE o \in {"write_stdin", "close_stdin"} -> "stdin_pipe"
      [] o \in {"close_stdout", "read_stdout"} -> "stdout_pipe"
      [] o \in {"close_stderr", "read_stderr"} -> "stderr_pipe"
      [] OTHER -> "none"

FirstPc(o) ==
    CASE o = "signal" -> "sig_lock_cached"
      [] o = "wait" -> "wait_check"
      [] o = "alive" -> "alive_check"
      [] OTHER -> "io_lock"

\* Variant: no status memo, every call runs waitpid.
ChildWaitOutcomeNoMemo(memo, p, st) ==
    IF p = "zombie" THEN [kind |-> "ok", status |-> st, sys |-> TRUE]
    ELSE IF p = "running" THEN [kind |-> "pending", status |-> NoStatus, sys |-> TRUE]
    ELSE [kind |-> "err", status |-> NoStatus, sys |-> TRUE]

\* Variant: a child whose status was already collected reports an unknown
\* status instead of the collected one.
ChildWaitOutcomeStale(memo, p, st) ==
    IF memo.kind # "none" THEN [kind |-> "ok", status |-> OtherStatus, sys |-> FALSE]
    ELSE IF p = "zombie" THEN [kind |-> "ok", status |-> st, sys |-> TRUE]
    ELSE IF p = "running" THEN [kind |-> "pending", status |-> NoStatus, sys |-> TRUE]
    ELSE [kind |-> "err", status |-> NoStatus, sys |-> TRUE]

\* Variant: a child that is still running is reported as terminated with an
\* unknown status.
ChildWaitOutcomeEarly(memo, p, st) ==
    IF memo.kind # "none" THEN [kind |-> "ok", status |-> memo, sys |-> FALSE]
    ELSE IF p = "zombie" THEN [kind |-> "ok", status |-> st, sys |-> TRUE]
    ELSE IF p = "running" THEN [kind |-> "ok", status |-> OtherStatus, sys |-> FALSE]
    ELSE [kind |-> "err", status |-> NoStatus, sys |-> TRUE]

\* Child::wait / Child::try_wait of std on the child in OS state p with
\* status st: the memoized status is returned without a syscall; otherwise
\* waitpid runs (sys), which collects a zombie, reports a running child as
\* pending and fails on a child whose status is no longer there.
ChildWaitOutcome(memo, p, st) ==
    IF memo.kind # "none" THEN [kind |-> "ok", status |-> memo, sys |-> FALSE]
    ELSE IF p = "zombie" THEN [kind |-> "ok", status |-> st, sys |-> TRUE]
    ELSE IF p = "running" THEN [kind |-> "pending", status |-> NoStatus, sys |-> TRUE]
    ELSE [kind |-> "err", status |-> NoStatus, sys |-> TRUE]

\* Longest buffer the caller of write_stdin_nif submits.
MaxLen == 3

\* Largest capacity of the stdin pipe, in bytes.
MaxCap == 2

\* Capacity of the stdout and stderr pipes, in bytes.
OutCap == 2

\* Bytes the child writes to stdout and stderr altogether.
MaxMade == 3

\* The read buffer of read_stdout_nif and read_stderr_nif.
ReadBufLen == 4096

\* Stream modes and paths spawn_nif is called with: the four modes the code
\* knows and one it does not; an empty path and a path that names a file.
ModeInputs == {"null", "pipe", "inherit", "file", "bogus"}

PathInputs == {"", "f"}

\* The order in which spawn_nif configures the three streams.
StdioOrder == <<"stdin_pipe", "stdout_pipe", "stderr_pipe">>

\* The order in which spawn_nif sets O_NONBLOCK on the pipes it took.
NonblockOrder == <<"stdout_pipe", "stderr_pipe", "stdin_pipe">>

\* parse_stdio_config without the empty-path test of file mode.
parse_stdio_config_any_path(mode, path) ==
    CASE mode = "null" -> [ok |-> TRUE, cfg |-> "Null"]
      [] mode = "pipe" -> [ok |-> TRUE, cfg |-> "Pipe"]
      [] mode = "inherit" -> [ok |-> TRUE, cfg |-> "Inherit"]
      [] mode = "file" -> [ok |-> TRUE, cfg |-> "File"]
      [] OTHER -> [ok |-> FALSE, cfg |-> "invalid stdio mode"]

\* parse_stdio_config: the mode string and the path of one stream.
parse_stdio_config(mode, path) ==
    CASE mode = "null" -> [ok |-> TRUE, cfg |-> "Null"]
      [] mode = "pipe" -> [ok |-> TRUE, cfg |-> "Pipe"]
      [] mode = "inherit" -> [ok |-> TRUE, cfg |-> "Inherit"]
      [] mode = "file" -> IF path = ""
                          THEN [ok |-> FALSE, cfg |-> "file mode requires a path"]
                          ELSE [ok |-> TRUE, cfg |-> "File"]
      [] OTHER -> [ok |-> FALSE, cfg |-> "invalid stdio mode"]

\* The streams read_stdout_nif and read_stderr_nif read.
OutStreams == {"stdout_pipe", "stderr_pipe"}

\* spawn_nif has returned the handle; its arguments no longer matter.
SpawnReturned ==
    [pc |-> "done", i |-> 1, result |-> "ok",
     mode |-> [s \in Streams |-> "pipe"], path |-> [s \in Streams |-> ""],
     cfg |-> [s \in Streams |-> "Pipe"], opened |-> {}, nonblock |-> Streams,
     osTouched |-> TRUE]

\* Pipes nobody has written to, with every far end open.
IoIdle ==
    [data |-> <<>>, rest |-> <<>>, cap |-> 1, inbuf |-> <<>>, got |-> <<>>,
     readerOpen |-> TRUE, wres |-> NoRes, partials |-> 0, blocked |-> FALSE,
     avail |-> [s \in OutStreams |-> 0],
     writerOpen |-> [s \in OutStreams |-> TRUE],
     made |-> 0,
     eofSeen |-> [s \in OutStreams |-> FALSE],
     eofReads |-> [s \in OutStreams |-> 0],
     rres |-> [s \in OutStreams |-> NoRes],
     closedOk |-> {}]

----------------------------------------------------------------------------
\* Initial state: spawn_nif has returned the handle; the streams were
\* configured as Pipe, or none of them was.

Init ==
    /\ proc = "running"
    /\ exitStatus = NoStatus
    /\ sent = {}
    /\ child = [some |-> TRUE, memo |-> NoStatus]
    /\ cached = None
    /\ scenario \in {ExitOps, Ops}
    /\ pipe \in IF scenario = ExitOps
               THEN {[s \in Streams |-> TRUE]}
               ELSE {[s \in Streams |-> TRUE], [s \in Streams |-> FALSE]}
    /\ lock = [l \in Locks |-> 0]
    /\ op = [c \in Calls |-> "none"]
    /\ pc = [c \in Calls |-> "new"]
    /\ tmp = [c \in Calls |-> 0]
    /\ res = [c \in Calls |-> NoRes]
    /\ began = [c \in Calls |-> [afterTerminal |-> FALSE, afterPollReap |-> FALSE,
                                     afterCache |-> FALSE]]
    /\ begun = 0
    /\ sp = SpawnReturned
    /\ io = IoIdle
    /\ hist = [reaper |-> 0, memoHit |-> 0, reaps |-> 0, stores |-> 0, kills |-> 0,
               waitSysAfterReap |-> FALSE, waitSysWithCache |-> FALSE,
               killAfterReap |-> FALSE, killWithCache |-> FALSE]

----------------------------------------------------------------------------
\* Helpers

\* Every MutexGuard of a call is dropped when its NIF returns.
Released(c) == [l \in Locks |-> IF lock[l] = c THEN 0 ELSE lock[l]]

\* Some call has observed a terminal state: a wait has returned an exit
\* code, or a poll has returned false.
TerminalObserved ==
    \E c \in Calls :
        /\ pc[c] = "done"
        /\ \/ op[c] = "wait" /\ res[c].tag = "code"
           \/ op[c] = "alive" /\ res[c] = R("bool", 0)

\* The poll that reaped the process has returned.
PollReapReturned ==
    /\ hist.reaper # 0
    /\ op[hist.reaper] = "alive"
    /\ pc[hist.reaper] = "done"

\* The NIF of call c returns r.
Return(c, r) ==
    /\ pc' = [pc EXCEPT ![c] = "done"]
    /\ res' = [res EXCEPT ![c] = r]
    /\ lock' = Released(c)

----------------------------------------------------------------------------
\* The environment: the child terminates; its status is collected outside
\* the handle (the host ignores SIGCHLD or waits for any child), after
\* which waitpid on it fails.

ProcExit ==
    /\ proc = "running"
    /\ \E st \in {Exited(n) : n \in ExitCodes} \cup {Signaled(s) : s \in sent} :
           exitStatus' = st
    /\ proc' = "zombie"
    /\ UNCHANGED <<sent, child, cached, pipe, lock, op, pc, tmp, res, began, begun, scenario, sp, io, hist>>

ForeignReap ==
    /\ proc = "zombie"
    /\ proc' = "lost"
    /\ UNCHANGED <<exitStatus, sent, child, cached, pipe, lock, op, pc, tmp, res,
                   began, begun, scenario, sp, io, hist>>

CallLimit == IF scenario = ExitOps THEN NCalls ELSE NIoCalls

\* A caller invokes a NIF on the handle.
Begin(c) ==
    /\ pc[c] = "new"
    /\ c = begun + 1
    /\ c <= CallLimit
    /\ begun' = c
    /\ \E o \in scenario :
        /\ op' = [op EXCEPT ![c] = o]
        /\ pc' = [pc EXCEPT ![c] = FirstPc(o)]
        /\ IF o = "signal"
           THEN \E s \in SignalInputs : tmp' = [tmp EXCEPT ![c] = s]
           ELSE tmp' = tmp
    /\ began' = [began EXCEPT ![c] = [afterTerminal |-> TerminalObserved,
                                      afterPollReap |-> PollReapReturned,
                                      afterCache |-> cached.some]]
    /\ UNCHANGED <<proc, exitStatus, sent, child, cached, pipe, lock, res, scenario, sp, io, hist>>

----------------------------------------------------------------------------
\* signal_nif

\* Variant: the cached_exit_code guard is dropped right after the check.
SignalLockCachedUnheld(c) ==
    /\ pc[c] = "sig_lock_cached"
    /\ lock["cached_exit_code"] = 0
    /\ IF cached.some
       THEN Return(c, R("error_already_exited", 0))
       ELSE /\ pc' = [pc EXCEPT ![c] = "sig_lock_child"]
            /\ UNCHANGED <<res, lock>>
    /\ UNCHANGED <<proc, exitStatus, sent, child, cached, pipe, op, tmp, began, begun, scenario, sp, io, hist>>

\* cached_exit_code.lock(); a populated cache refuses with already_exited.
SignalLockCached(c) ==
    /\ pc[c] = "sig_lock_cached"
    /\ lock["cached_exit_code"] = 0
    /\ IF cached.some
       THEN Return(c, R("error_already_exited", 0))
       ELSE /\ lock' = [lock EXCEPT !["cached_exit_code"] = c]
            /\ pc' = [pc EXCEPT ![c] = "sig_lock_child"]
            /\ res' = res
    /\ UNCHANGED <<proc, exitStatus, sent, child, cached, pipe, op, tmp, began, begun, scenario, sp, io, hist>>

\* child.lock(), with the cached_exit_code guard still held.
SignalLockChild(c) ==
    /\ pc[c] = "sig_lock_child"
    /\ lock["child"] = 0
    /\ lock' = [lock EXCEPT !["child"] = c]
    /\ pc' = [pc EXCEPT ![c] = "sig_pid"]
    /\ UNCHANGED <<proc, exitStatus, sent, child, cached, pipe, op, tmp, res, began, begun, scenario, sp, io, hist>>

\* Variant: the signal number is passed to kill without Signal::try_from.
SignalPidNoValidate(c) ==
    /\ pc[c] = "sig_pid"
    /\ IF ~child.some
       THEN Return(c, R("error_already_exited", 0))
       ELSE /\ lock' = [lock EXCEPT !["child"] = 0]
            /\ pc' = [pc EXCEPT ![c] = "sig_kill"]
            /\ res' = res
    /\ UNCHANGED <<proc, exitStatus, sent, child, cached, pipe, op, tmp, began, begun, scenario, sp, io, hist>>

\* Read the pid, drop(child_lock), Signal::try_from(signal).
SignalPid(c) ==
    /\ pc[c] = "sig_pid"
    /\ IF ~child.some
       THEN Return(c, R("error_already_exited", 0))
       ELSE IF ~ValidSignal(tmp[c])
       THEN Return(c, R("err_invalid_signal", 0))
       ELSE /\ lock' = [lock EXCEPT !["child"] = 0]
            /\ pc' = [pc EXCEPT ![c] = "sig_kill"]
            /\ res' = res
    /\ UNCHANGED <<proc, exitStatus, sent, child, cached, pipe, op, tmp, began, begun, scenario, sp, io, hist>>

\* kill(pid, sig): delivered to a running child, accepted for a zombie; on
\* a pid whose status was collected it fails, or lands on whatever process
\* the kernel gave the pid to.
SignalKill(c) ==
    /\ pc[c] = "sig_kill"
    /\ sent' = IF proc = "running" THEN sent \cup {tmp[c]} ELSE sent
    /\ hist' = [hist EXCEPT !.kills = IF @ < 2 THEN @ + 1 ELSE @,
                            !.killAfterReap = @ \/ proc = "reaped",
                            !.killWithCache = @ \/ cached.some]
    /\ \E r \in IF proc \in {"running", "zombie"}
                THEN {R("ok", 0)}
                ELSE {R("ok", 0), R("error_os", 0)} :
           Return(c, r)
    /\ UNCHANGED <<proc, exitStatus, child, cached, pipe, op, tmp, began, begun, scenario, sp, io>>

----------------------------------------------------------------------------
\* wait_nif

\* Variant: wait goes to the child slot without consulting the cache.
WaitCheckNoCache(c) ==
    /\ pc[c] = "wait_check"
    /\ lock["cached_exit_code"] = 0
    /\ pc' = [pc EXCEPT ![c] = "wait_lock_child"]
    /\ UNCHANGED <<proc, exitStatus, sent, child, cached, pipe, lock, op, tmp, res, began,
                   begun, scenario, sp, io, hist>>

\* Check cache first; the guard is dropped at the end of the block.
WaitCheck(c) ==
    /\ pc[c] = "wait_check"
    /\ lock["cached_exit_code"] = 0
    /\ IF cached.some
       THEN Return(c, R("code", cached.code))
       ELSE /\ pc' = [pc EXCEPT ![c] = "wait_lock_child"]
            /\ UNCHANGED <<res, lock>>
    /\ UNCHANGED <<proc, exitStatus, sent, child, cached, pipe, op, tmp, began, begun, scenario, sp, io, hist>>

WaitLockChild(c) ==
    /\ pc[c] = "wait_lock_child"
    /\ lock["child"] = 0
    /\ lock' = [lock EXCEPT !["child"] = c]
    /\ pc' = [pc EXCEPT ![c] = "wait_os"]
    /\ UNCHANGED <<proc, exitStatus, sent, child, cached, pipe, op, tmp, res, began, begun, scenario, sp, io, hist>>

\* child.wait() under the child guard: suspends while the child runs.
WaitOs(c) ==
    /\ pc[c] = "wait_os"
    /\ IF ~child.some
       THEN /\ pc' = [pc EXCEPT ![c] = "wait_recheck"]
            /\ UNCHANGED <<proc, child, tmp, res, lock, hist>>
       ELSE LET o == ChildWaitOutcome(child.memo, proc, exitStatus) IN
            /\ o.kind # "pending"
            /\ hist' = [hist EXCEPT
                   !.waitSysAfterReap = @ \/ (o.sys /\ proc = "reaped"),
                   !.waitSysWithCache = @ \/ (o.sys /\ cached.some),
                   !.reaps = IF o.sys /\ o.kind = "ok" THEN @ + 1 ELSE @,
                   !.reaper = IF o.sys /\ o.kind = "ok" THEN c ELSE @,
                   !.memoHit = IF ~o.sys THEN c ELSE @]
            /\ IF o.kind = "ok"
               THEN /\ child' = [child EXCEPT !.memo = o.status]
                    /\ proc' = IF o.sys THEN "reaped" ELSE proc
                    /\ tmp' = [tmp EXCEPT ![c] = exit_status_to_code(o.status)]
                    /\ pc' = [pc EXCEPT ![c] = "wait_store"]
                    /\ UNCHANGED <<res, lock>>
               ELSE /\ Return(c, R("err_failed_to_wait", 0))
                    /\ UNCHANGED <<proc, child, tmp>>
    /\ UNCHANGED <<exitStatus, sent, cached, pipe, op, began, begun, scenario, sp, io>>

\* cached_exit_code.lock() with the child guard held: store the code, or,
\* when the child slot was empty, read the cache once more.
WaitPublish(c) ==
    /\ pc[c] \in {"wait_store", "wait_recheck"}
    /\ lock["cached_exit_code"] = 0
    /\ IF pc[c] = "wait_store"
       THEN /\ cached' = Some(tmp[c])
            /\ hist' = [hist EXCEPT !.stores = IF @ < 2 THEN @ + 1 ELSE @]
            /\ Return(c, R("code", tmp[c]))
       ELSE /\ UNCHANGED <<cached, hist>>
            /\ IF cached.some
               THEN Return(c, R("code", cached.code))
               ELSE Return(c, R("err_already_reaped", 0))
    /\ UNCHANGED <<proc, exitStatus, sent, child, pipe, op, tmp, began, begun, scenario, sp, io>>

----------------------------------------------------------------------------
\* alive_nif

AliveCheck(c) ==
    /\ pc[c] = "alive_check"
    /\ lock["cached_exit_code"] = 0
    /\ IF cached.some
       THEN Return(c, R("bool", 0))
       ELSE /\ pc' = [pc EXCEPT ![c] = "alive_lock_child"]
            /\ UNCHANGED <<res, lock>>
    /\ UNCHANGED <<proc, exitStatus, sent, child, cached, pipe, op, tmp, began, begun, scenario, sp, io, hist>>

AliveLockChild(c) ==
    /\ pc[c] = "alive_lock_child"
    /\ lock["child"] = 0
    /\ lock' = [lock EXCEPT !["child"] = c]
    /\ pc' = [pc EXCEPT ![c] = "alive_os"]
    /\ UNCHANGED <<proc, exitStatus, sent, child, cached, pipe, op, tmp, res, began, begun, scenario, sp, io, hist>>

\* Variant: a failed status query is reported as alive.
AliveOsErrAlive(c) ==
    /\ pc[c] = "alive_os"
    /\ IF ~child.some
       THEN /\ Return(c, R("bool", 0))
            /\ UNCHANGED <<proc, child, tmp, hist>>
       ELSE LET o == ChildWaitOutcome(child.memo, proc, exitStatus) IN
            /\ hist' = [hist EXCEPT
                   !.waitSysAfterReap = @ \/ (o.sys /\ proc = "reaped"),
                   !.waitSysWithCache = @ \/ (o.sys /\ cached.some),
                   !.reaps = IF o.sys /\ o.kind = "ok" THEN @ + 1 ELSE @,
                   !.reaper = IF o.sys /\ o.kind = "ok" THEN c ELSE @,
                   !.memoHit = IF ~o.sys THEN c ELSE @]
            /\ IF o.kind = "ok"
               THEN /\ child' = [child EXCEPT !.memo = o.status]
                    /\ proc' = IF o.sys THEN "reaped" ELSE proc
                    /\ tmp' = [tmp EXCEPT ![c] = exit_status_to_code(o.status)]
                    /\ pc' = [pc EXCEPT ![c] = "alive_store"]
                    /\ UNCHANGED <<res, lock>>
               ELSE /\ Return(c, R("bool", 1))
                    /\ UNCHANGED <<proc, child, tmp>>
    /\ UNCHANGED <<exitStatus, sent, cached, pipe, op, began, begun, scenario, sp, io>>

\* Variant: a poll that finds the child running takes it out of the slot.
AliveOsPendingTakes(c) ==
    /\ pc[c] = "alive_os"
    /\ IF ~child.some
       THEN /\ Return(c, R("bool", 0))
            /\ UNCHANGED <<proc, child, tmp, hist>>
       ELSE LET o == ChildWaitOutcome(child.memo, proc, exitStatus) IN
            /\ hist' = [hist EXCEPT
                   !.waitSysAfterReap = @ \/ (o.sys /\ proc = "reaped"),
                   !.waitSysWithCache = @ \/ (o.sys /\ cached.some),
                   !.reaps = IF o.sys /\ o.kind = "ok" THEN @ + 1 ELSE @,
                   !.reaper = IF o.sys /\ o.kind = "ok" THEN c ELSE @,
                   !.memoHit = IF ~o.sys THEN c ELSE @]
            /\ IF o.kind = "ok"
               THEN /\ child' = [child EXCEPT !.memo = o.status]
                    /\ proc' = IF o.sys THEN "reaped" ELSE proc
                    /\ tmp' = [tmp EXCEPT ![c] = exit_status_to_code(o.status)]
                    /\ pc' = [pc EXCEPT ![c] = "alive_store"]
                    /\ UNCHANGED <<res, lock>>
               ELSE /\ Return(c, R("bool", IF o.kind = "pending" THEN 1 ELSE 0))
                    /\ child' = [child EXCEPT !.some = o.kind # "pending"]
                    /\ UNCHANGED <<proc, tmp>>
    /\ UNCHANGED <<exitStatus, sent, cached, pipe, op, began, begun, scenario, sp, io>>

\* child.try_wait() under the child guard: never suspends.
AliveOs(c) ==
    /\ pc[c] = "alive_os"
    /\ IF ~child.some
       THEN /\ Return(c, R("bool", 0))
            /\ UNCHANGED <<proc, child, tmp, hist>>
       ELSE LET o == ChildWaitOutcome(child.memo, proc, exitStatus) IN
            /\ hist' = [hist EXCEPT
                   !.waitSysAfterReap = @ \/ (o.sys /\ proc = "reaped"),
                   !.waitSysWithCache = @ \/ (o.sys /\ cached.some),
                   !.reaps = IF o.sys /\ o.kind = "ok" THEN @ + 1 ELSE @,
                   !.reaper = IF o.sys /\ o.kind = "ok" THEN c ELSE @,
                   !.memoHit = IF ~o.sys THEN c ELSE @]
            /\ IF o.kind = "ok"
               THEN /\ child' = [child EXCEPT !.memo = o.status]
                    /\ proc' = IF o.sys THEN "reaped" ELSE proc
                    /\ tmp' = [tmp EXCEPT ![c] = exit_status_to_code(o.status)]
                    /\ pc' = [pc EXCEPT ![c] = "alive_store"]
                    /\ UNCHANGED <<res, lock>>
               ELSE /\ Return(c, R("bool", IF o.kind = "pending" THEN 1 ELSE 0))
                    /\ UNCHANGED <<proc, child, tmp>>
    /\ UNCHANGED <<exitStatus, sent, cached, pipe, op, began, begun, scenario, sp, io>>

\* Variant: the poll that collected the status returns without storing it.
AliveStoreSkip(c) ==
    /\ pc[c] = "alive_store"
    /\ lock["cached_exit_code"] = 0
    /\ Return(c, R("bool", 0))
    /\ UNCHANGED <<proc, exitStatus, sent, child, cached, pipe, op, tmp, began, begun,
                   scenario, sp, io, hist>>

\* Variant: the poll that stores the code also takes the child out of its slot.
AliveStoreTakesChild(c) ==
    /\ pc[c] = "alive_store"
    /\ lock["cached_exit_code"] = 0
    /\ cached' = Some(tmp[c])
    /\ child' = [child EXCEPT !.some = FALSE]
    /\ hist' = [hist EXCEPT !.stores = IF @ < 2 THEN @ + 1 ELSE @]
    /\ Return(c, R("bool", 0))
    /\ UNCHANGED <<proc, exitStatus, sent, pipe, op, tmp, began, begun, scenario, sp, io>>

\* cached_exit_code.lock() with the child guard held; *cached = Some(code).
AliveStore(c) ==
    /\ pc[c] = "alive_store"
    /\ lock["cached_exit_code"] = 0
    /\ cached' = Some(tmp[c])
    /\ hist' = [hist EXCEPT !.stores = IF @ < 2 THEN @ + 1 ELSE @]
    /\ Return(c, R("bool", 0))
    /\ UNCHANGED <<proc, exitStatus, sent, child, pipe, op, tmp, began, begun, scenario, sp, io>>

----------------------------------------------------------------------------
\* write_stdin_nif, close_*_nif, read_*_nif: one stream slot each.

IoLock(c) ==
    /\ pc[c] = "io_lock"
    /\ lock[StreamOf(op[c])] = 0
    /\ lock' = [lock EXCEPT ![StreamOf(op[c])] = c]
    /\ pc' = [pc EXCEPT ![c] = "io_do"]
    /\ UNCHANGED <<proc, exitStatus, sent, child, cached, pipe, op, tmp, res, began, begun, scenario, sp, io, hist>>

\* One stdin.write(data): all of it, part of it, WouldBlock, BrokenPipe or
\* another OS error, as the pipe decides.
WriteStdin(c) ==
    /\ pc[c] = "io_do"
    /\ op[c] = "write_stdin"
    /\ IF pipe["stdin_pipe"]
       THEN \E r \in {R("ok", 0), R("partial", 1), R("would_block", 0),
                      R("error_broken_pipe", 0), R("error_os", 0)} :
                Return(c, r)
       ELSE Return(c, R("error_not_piped", 0))
    /\ UNCHANGED <<proc, exitStatus, sent, child, cached, pipe, op, tmp, began, begun, scenario, sp, io, hist>>

\* Variant: close reports ok whether or not the slot held a pipe end.
CloseStreamAlwaysOk(c) ==
    /\ pc[c] = "io_do"
    /\ op[c] \in {"close_stdin", "close_stdout", "close_stderr"}
    /\ pipe' = [pipe EXCEPT ![StreamOf(op[c])] = FALSE]
    /\ Return(c, R("ok", 0))
    /\ UNCHANGED <<proc, exitStatus, sent, child, cached, op, tmp, began, begun, scenario, sp, io, hist>>

CloseStream(c) ==
    /\ pc[c] = "io_do"
    /\ op[c] \in {"close_stdin", "close_stdout", "close_stderr"}
    /\ IF pipe[StreamOf(op[c])]
       THEN /\ pipe' = [pipe EXCEPT ![StreamOf(op[c])] = FALSE]
            /\ Return(c, R("ok", 0))
       ELSE /\ pipe' = pipe
            /\ Return(c, R("error_not_piped", 0))
    /\ UNCHANGED <<proc, exitStatus, sent, child, cached, op, tmp, began, begun, scenario, sp, io, hist>>

\* One read into the 4096 byte buffer: Eof, bytes, WouldBlock or an error.
ReadStream(c) ==
    /\ pc[c] = "io_do"
    /\ op[c] \in {"read_stdout", "read_stderr"}
    /\ IF pipe[StreamOf(op[c])]
       THEN \E r \in {R("eof", 0), R("ok", 1), R("would_block", 0), R("error_os", 0)} :
                Return(c, r)
       ELSE Return(c, R("error_not_piped", 0))
    /\ UNCHANGED <<proc, exitStatus, sent, child, cached, pipe, op, tmp, began, begun, scenario, sp, io, hist>>

----------------------------------------------------------------------------

Next ==
    \/ ProcExit
    \/ ForeignReap
    \/ \E c \in Calls :
        \/ Begin(c)
        \/ SignalLockCached(c)
        \/ SignalLockChild(c)
        \/ SignalPid(c)
        \/ SignalKill(c)
        \/ WaitCheck(c)
        \/ WaitLockChild(c)
        \/ WaitOs(c)
        \/ WaitPublish(c)
        \/ AliveCheck(c)
        \/ AliveLockChild(c)
        \/ AliveOs(c)
        \/ AliveStore(c)
        \/ IoLock(c)
        \/ WriteStdin(c)
        \/ CloseStream(c)
        \/ ReadStream(c)

Spec == Init /\ [][Next]_vars

----------------------------------------------------------------------------
\* Exit code mapping: the child has terminated with any status an
\* ExitStatus can carry, and wait_nif and alive_nif collect it.

StatusInputs ==
    {Exited(n) : n \in {0, 3, 7, 255}} \cup {Signaled(s) : s \in {9, 15}} \cup {OtherStatus}

InitCode ==
    /\ proc = "zombie"
    /\ exitStatus \in StatusInputs
    /\ sent = {}
    /\ child = [some |-> TRUE, memo |-> NoStatus]
    /\ cached = None
    /\ scenario = {"wait", "alive"}
    /\ pipe = [s \in Streams |-> TRUE]
    /\ lock = [l \in Locks |-> 0]
    /\ op = [c \in Calls |-> "none"]
    /\ pc = [c \in Calls |-> "new"]
    /\ tmp = [c \in Calls |-> 0]
    /\ res = [c \in Calls |-> NoRes]
    /\ began = [c \in Calls |-> [afterTerminal |-> FALSE, afterPollReap |-> FALSE,
                                     afterCache |-> FALSE]]
    /\ begun = 0
    /\ sp = SpawnReturned
    /\ io = IoIdle
    /\ hist = [reaper |-> 0, memoHit |-> 0, reaps |-> 0, stores |-> 0, kills |-> 0,
               waitSysAfterReap |-> FALSE, waitSysWithCache |-> FALSE,
               killAfterReap |-> FALSE, killWithCache |-> FALSE]

NextCode ==
    \E c \in Calls :
        \/ Begin(c)
        \/ WaitCheck(c)
        \/ WaitLockChild(c)
        \/ WaitOs(c)
        \/ WaitPublish(c)
        \/ AliveCheck(c)
        \/ AliveLockChild(c)
        \/ AliveOs(c)
        \/ AliveStore(c)

SpecCode == InitCode /\ [][NextCode]_vars

----------------------------------------------------------------------------
\* spawn_nif, step by step, from its arguments to the handle or the error.

\* The state every other variable has while spawn_nif runs: no process, no
\* handle.
NoHandle ==
    /\ exitStatus = NoStatus
    /\ sent = {}
    /\ child = [some |-> FALSE, memo |-> NoStatus]
    /\ cached = None
    /\ pipe = [s \in Streams |-> FALSE]
    /\ lock = [l \in Locks |-> 0]
    /\ op = [c \in Calls |-> "none"]
    /\ pc = [c \in Calls |-> "new"]
    /\ tmp = [c \in Calls |-> 0]
    /\ res = [c \in Calls |-> NoRes]
    /\ began = [c \in Calls |-> [afterTerminal |-> FALSE, afterPollReap |-> FALSE,
                                     afterCache |-> FALSE]]
    /\ begun = 0
    /\ scenario = {}
    /\ hist = [reaper |-> 0, memoHit |-> 0, reaps |-> 0, stores |-> 0, kills |-> 0,
               waitSysAfterReap |-> FALSE, waitSysWithCache |-> FALSE,
               killAfterReap |-> FALSE, killWithCache |-> FALSE]

InitSpawn ==
    /\ proc = "none"
    /\ NoHandle
    /\ io = IoIdle
    /\ \E m \in [Streams -> ModeInputs], p \in [Streams -> PathInputs] :
           sp = [pc |-> "parse", i |-> 1, result |-> "none", mode |-> m, path |-> p,
                 cfg |-> [s \in Streams |-> "none"], opened |-> {}, nonblock |-> {},
                 osTouched |-> FALSE]

\* spawn_nif returns an error: whatever it holds is dropped.
SpawnErr(r) == [sp EXCEPT !.pc = "done", !.result = r]

\* The three parse_stdio_config calls, each leaving spawn_nif on an error.
SpawnParse ==
    /\ sp.pc = "parse"
    /\ LET r == [s \in Streams |-> parse_stdio_config(sp.mode[s], sp.path[s])]
       IN  IF \A s \in Streams : r[s].ok
           THEN sp' = [sp EXCEPT !.pc = "stdio", !.i = 1,
                                 !.cfg = [s \in Streams |-> r[s].cfg]]
           ELSE sp' = SpawnErr("err_config")
    /\ UNCHANGED <<proc, exitStatus, sent, child, cached, pipe, lock, op, pc, tmp, res,
                   began, begun, scenario, io, hist>>

\* Configure one stream: a file is opened (stdin) or created and truncated
\* (stdout, stderr), which the OS may refuse; no path names the empty string.
SpawnStdio ==
    /\ sp.pc = "stdio"
    /\ LET s == StdioOrder[sp.i]
           on == IF sp.i = Len(StdioOrder)
                 THEN [sp EXCEPT !.pc = "spawn", !.i = 1]
                 ELSE [sp EXCEPT !.i = sp.i + 1]
       IN  IF sp.cfg[s] = "File"
           THEN \E opens \in IF sp.path[s] = "" THEN {FALSE} ELSE BOOLEAN :
                    IF opens
                    THEN sp' = [on EXCEPT !.opened = sp.opened \cup {s},
                                          !.osTouched = TRUE]
                    ELSE sp' = [SpawnErr("err_stdio") EXCEPT !.osTouched = TRUE]
           ELSE sp' = on
    /\ UNCHANGED <<proc, exitStatus, sent, child, cached, pipe, lock, op, pc, tmp, res,
                   began, begun, scenario, io, hist>>

\* command.spawn(): the OS creates the process or refuses.
SpawnProcess ==
    /\ sp.pc = "spawn"
    /\ \E created \in BOOLEAN :
           IF created
           THEN /\ proc' = "running"
                /\ sp' = [sp EXCEPT !.pc = "nonblock", !.i = 1, !.osTouched = TRUE]
           ELSE /\ proc' = proc
                /\ sp' = [SpawnErr("err_spawn") EXCEPT !.osTouched = TRUE]
    /\ UNCHANGED <<exitStatus, sent, child, cached, pipe, lock, op, pc, tmp, res,
                   began, begun, scenario, io, hist>>

\* set_nonblocking on one pipe spawn_nif took from the Child. When fcntl
\* fails, spawn_nif returns the error and the Child is dropped; dropping a
\* Child neither signals nor waits for the process.
SpawnNonblock ==
    /\ sp.pc = "nonblock"
    /\ LET s == NonblockOrder[sp.i]
           on == IF sp.i = Len(NonblockOrder)
                 THEN [sp EXCEPT !.pc = "resource", !.i = 1]
                 ELSE [sp EXCEPT !.i = sp.i + 1]
       IN  IF sp.cfg[s] = "Pipe"
           THEN \E set \in BOOLEAN :
                    IF set
                    THEN sp' = [on EXCEPT !.nonblock = sp.nonblock \cup {s}]
                    ELSE sp' = SpawnErr("err_nonblock")
           ELSE sp' = on
    /\ UNCHANGED <<proc, exitStatus, sent, child, cached, pipe, lock, op, pc, tmp, res,
                   began, begun, scenario, io, hist>>

\* Variant: every stream slot of the new handle holds a pipe end.
SpawnFinishAllPiped ==
    /\ sp.pc = "resource"
    /\ child' = [some |-> TRUE, memo |-> NoStatus]
    /\ cached' = None
    /\ pipe' = [s \in Streams |-> TRUE]
    /\ sp' = [sp EXCEPT !.pc = "done", !.result = "ok"]
    /\ UNCHANGED <<proc, exitStatus, sent, lock, op, pc, tmp, res, began, begun,
                   scenario, io, hist>>

\* ResourceArc::new: the handle, with the child, an empty cache and the pipes.
SpawnFinish ==
    /\ sp.pc = "resource"
    /\ child' = [some |-> TRUE, memo |-> NoStatus]
    /\ cached' = None
    /\ pipe' = [s \in Streams |-> sp.cfg[s] = "Pipe"]
    /\ sp' = [sp EXCEPT !.pc = "done", !.result = "ok"]
    /\ UNCHANGED <<proc, exitStatus, sent, lock, op, pc, tmp, res, began, begun,
                   scenario, io, hist>>

NextSpawn ==
    \/ SpawnParse
    \/ SpawnStdio
    \/ SpawnProcess
    \/ SpawnNonblock
    \/ SpawnFinish
    \/ ProcExit

SpecSpawn == InitSpawn /\ [][NextSpawn]_vars

----------------------------------------------------------------------------

\* The stdin pipe: write_stdin_nif on one end, the child on the other.

Min(a, b) == IF a < b THEN a ELSE b

\* What write(2) on the non-blocking write end can do with buf. A write of
\* no bytes returns 0; with no reader left some systems fail it with EPIPE
\* all the same (Linux returns 0 before it looks at the readers). Otherwise:
\* EPIPE with no reader, EAGAIN with no room, or any non-empty prefix that
\* fits.
OsWrite(buf) ==
    IF Len(buf) = 0
    THEN IF io.readerOpen
         THEN {[kind |-> "n", n |-> 0]}
         ELSE {[kind |-> "n", n |-> 0], [kind |-> "epipe", n |-> 0]}
    ELSE IF ~io.readerOpen THEN {[kind |-> "epipe", n |-> 0]}
    ELSE IF Len(io.inbuf) >= io.cap THEN {[kind |-> "again", n |-> 0]}
    ELSE {[kind |-> "n", n |-> k] : k \in 1..Min(Len(buf), io.cap - Len(io.inbuf))}

\* write_stdin_nif's match with every Ok(n) reported as ok.
WriteResultOkOnAny(os, len) ==
    CASE os.kind = "n" -> R("ok", 0)
      [] os.kind = "again" -> R("would_block", 0)
      [] os.kind = "epipe" -> R("error_broken_pipe", 0)
      [] OTHER -> R("error_os", 0)

\* write_stdin_nif's match with a short write reported as would_block.
WriteResultShortAsBlock(os, len) ==
    CASE os.kind = "n" /\ os.n = len -> R("ok", 0)
      [] os.kind = "n" -> R("would_block", 0)
      [] os.kind = "again" -> R("would_block", 0)
      [] os.kind = "epipe" -> R("error_broken_pipe", 0)
      [] OTHER -> R("error_os", 0)

\* write_stdin_nif's match on the result of stdin.write(data).
WriteResult(os, len) ==
    CASE os.kind = "n" /\ os.n = len -> R("ok", 0)
      [] os.kind = "n" -> R("partial", os.n)
      [] os.kind = "again" -> R("would_block", 0)
      [] os.kind = "epipe" -> R("error_broken_pipe", 0)
      [] OTHER -> R("error_os", 0)

\* What the caller still has to submit after result r for buf: nothing after
\* ok, the bytes behind the first n after partial n, all of buf otherwise.
CallerRest(buf, r) ==
    CASE r.tag = "ok" -> <<>>
      [] r.tag = "partial" -> SubSeq(buf, r.val + 1, Len(buf))
      [] OTHER -> buf

InitWrite ==
    /\ proc = "running"
    /\ exitStatus = NoStatus
    /\ sent = {}
    /\ child = [some |-> TRUE, memo |-> NoStatus]
    /\ cached = None
    /\ \E piped \in BOOLEAN : pipe = [s \in Streams |-> piped]
    /\ lock = [l \in Locks |-> 0]
    /\ op = [c \in Calls |-> "none"]
    /\ pc = [c \in Calls |-> "new"]
    /\ tmp = [c \in Calls |-> 0]
    /\ res = [c \in Calls |-> NoRes]
    /\ began = [c \in Calls |-> [afterTerminal |-> FALSE, afterPollReap |-> FALSE,
                                     afterCache |-> FALSE]]
    /\ begun = 0
    /\ scenario = {"write_stdin"}
    /\ sp = SpawnReturned
    /\ \E n \in 0..MaxLen, cap \in 1..MaxCap :
           io = [IoIdle EXCEPT !.data = [i \in 1..n |-> i],
                               !.rest = [i \in 1..n |-> i],
                               !.cap = cap]
    /\ hist = [reaper |-> 0, memoHit |-> 0, reaps |-> 0, stores |-> 0, kills |-> 0,
               waitSysAfterReap |-> FALSE, waitSysWithCache |-> FALSE,
               killAfterReap |-> FALSE, killWithCache |-> FALSE]

\* One write_stdin_nif call of a caller that submits what is left of its
\* buffer until it is told ok or an error.
WriteStdinPipe ==
    /\ io.wres.tag \in {"none", "partial", "would_block"}
    /\ lock["stdin_pipe"] = 0
    /\ IF pipe["stdin_pipe"]
       THEN \E os \in OsWrite(io.rest) :
                LET r == WriteResult(os, Len(io.rest))
                IN  io' = [io EXCEPT !.inbuf = @ \o SubSeq(io.rest, 1, os.n),
                                     !.rest = CallerRest(io.rest, r),
                                     !.wres = r,
                                     !.partials = @ + (IF r.tag = "partial" THEN 1 ELSE 0),
                                     !.blocked = @ \/ r.tag = "would_block"]
       ELSE io' = [io EXCEPT !.wres = R("error_not_piped", 0)]
    /\ UNCHANGED <<proc, exitStatus, sent, child, cached, pipe, lock, op, pc, tmp, res,
                   began, begun, scenario, sp, hist>>

\* The child reads some of what is in its stdin pipe.
ChildReadStdin ==
    /\ io.readerOpen
    /\ \E k \in 1..Len(io.inbuf) :
           io' = [io EXCEPT !.got = @ \o SubSeq(io.inbuf, 1, k),
                            !.inbuf = SubSeq(io.inbuf, k + 1, Len(io.inbuf))]
    /\ UNCHANGED <<proc, exitStatus, sent, child, cached, pipe, lock, op, pc, tmp, res,
                   began, begun, scenario, sp, hist>>

\* The child closes its stdin, or ends.
ChildCloseStdin ==
    /\ io.readerOpen
    /\ io' = [io EXCEPT !.readerOpen = FALSE]
    /\ UNCHANGED <<proc, exitStatus, sent, child, cached, pipe, lock, op, pc, tmp, res,
                   began, begun, scenario, sp, hist>>

NextWrite ==
    \/ WriteStdinPipe
    \/ ChildReadStdin
    \/ ChildCloseStdin

SpecWrite == InitWrite /\ [][NextWrite]_vars

----------------------------------------------------------------------------
\* The stdout and stderr pipes: the child on one end, read_stdout_nif and
\* read_stderr_nif on the other.

\* What read(2) on the non-blocking read end of s can do with a buffer of
\* len bytes: bytes when there are some, EAGAIN when there are none and a
\* write end is open, 0 when there are none and no write end is open.
OsRead(s, len) ==
    IF io.avail[s] > 0 THEN {[kind |-> "n", n |-> Min(io.avail[s], len)]}
    ELSE IF io.writerOpen[s] THEN {[kind |-> "again", n |-> 0]}
    ELSE {[kind |-> "n", n |-> 0]}

\* read_stdout_nif's match with WouldBlock reported as eof.
ReadResultAgainAsEof(os) ==
    CASE os.kind = "n" /\ os.n = 0 -> R("eof", 0)
      [] os.kind = "n" -> R("ok", os.n)
      [] os.kind = "again" -> R("eof", 0)
      [] OTHER -> R("error_os", 0)

\* read_stdout_nif's and read_stderr_nif's match on the result of read(&mut buf).
ReadResult(os) ==
    CASE os.kind = "n" /\ os.n = 0 -> R("eof", 0)
      [] os.kind = "n" -> R("ok", os.n)
      [] os.kind = "again" -> R("would_block", 0)
      [] OTHER -> R("error_os", 0)

InitRead ==
    /\ proc = "running"
    /\ exitStatus = NoStatus
    /\ sent = {}
    /\ child = [some |-> TRUE, memo |-> NoStatus]
    /\ cached = None
    /\ pipe \in {p \in [Streams -> BOOLEAN] : ~p["stdin_pipe"]}
    /\ lock = [l \in Locks |-> 0]
    /\ op = [c \in Calls |-> "none"]
    /\ pc = [c \in Calls |-> "new"]
    /\ tmp = [c \in Calls |-> 0]
    /\ res = [c \in Calls |-> NoRes]
    /\ began = [c \in Calls |-> [afterTerminal |-> FALSE, afterPollReap |-> FALSE,
                                     afterCache |-> FALSE]]
    /\ begun = 0
    /\ scenario = {"read_stdout", "read_stderr", "close_stdout", "close_stderr"}
    /\ sp = SpawnReturned
    /\ io = IoIdle
    /\ hist = [reaper |-> 0, memoHit |-> 0, reaps |-> 0, stores |-> 0, kills |-> 0,
               waitSysAfterReap |-> FALSE, waitSysWithCache |-> FALSE,
               killAfterReap |-> FALSE, killWithCache |-> FALSE]

\* The child writes a byte to its stdout or stderr.
ChildWrite(s) ==
    /\ pipe[s]
    /\ io.writerOpen[s]
    /\ io.avail[s] < OutCap
    /\ io.made < MaxMade
    /\ io' = [io EXCEPT !.avail[s] = @ + 1, !.made = @ + 1]
    /\ UNCHANGED <<proc, exitStatus, sent, child, cached, pipe, lock, op, pc, tmp, res,
                   began, begun, scenario, sp, hist>>

\* The last write end of s goes away: the child closes the stream, or ends.
ChildCloseOut(s) ==
    /\ pipe[s]
    /\ io.writerOpen[s]
    /\ io' = [io EXCEPT !.writerOpen[s] = FALSE]
    /\ UNCHANGED <<proc, exitStatus, sent, child, cached, pipe, lock, op, pc, tmp, res,
                   began, begun, scenario, sp, hist>>

\* One read_stdout_nif (s the stdout slot) or read_stderr_nif call.
ReadStreamPipe(s) ==
    /\ lock[s] = 0
    /\ IF pipe[s]
       THEN \E os \in OsRead(s, ReadBufLen) :
                LET r == ReadResult(os)
                IN  io' = [io EXCEPT !.avail[s] = @ - os.n,
                                     !.rres[s] = r,
                                     !.eofSeen[s] = @ \/ r.tag = "eof",
                                     !.eofReads[s] =
                                         IF r.tag = "eof" THEN Min(@ + 1, 2) ELSE @]
       ELSE io' = [io EXCEPT !.rres[s] = R("error_not_piped", 0)]
    /\ UNCHANGED <<proc, exitStatus, sent, child, cached, pipe, lock, op, pc, tmp, res,
                   began, begun, scenario, sp, hist>>

\* One close_stdout_nif or close_stderr_nif call: the slot is emptied, which
\* closes the read end; on an empty slot nothing changes.
CloseStreamPipe(s) ==
    /\ lock[s] = 0
    /\ pipe[s]
    /\ pipe' = [pipe EXCEPT ![s] = FALSE]
    /\ io' = [io EXCEPT !.closedOk = @ \cup {s}]
    /\ UNCHANGED <<proc, exitStatus, sent, child, cached, lock, op, pc, tmp, res,
                   began, begun, scenario, sp, hist>>

NextRead ==
    \E s \in OutStreams :
        \/ ChildWrite(s)
        \/ ChildCloseOut(s)
        \/ ReadStreamPipe(s)
        \/ CloseStreamPipe(s)

SpecRead == InitRead /\ [][NextRead]_vars

----------------------------------------------------------------------------

\* The stream slots from the handle's creation on: spawn_nif has created the
\* process and is about to build the handle; then the stream NIFs and the
\* child use the pipes.

\* Bytes the caller of write_stdin_nif submits in this specification.
SlotData == <<1, 2>>

InitSlots ==
    /\ proc = "running"
    /\ NoHandle
    /\ io = [IoIdle EXCEPT !.data = SlotData, !.rest = SlotData]
    /\ \E m \in [Streams -> {"null", "pipe", "inherit", "file"}] :
           sp = [pc |-> "resource", i |-> 1, result |-> "none", mode |-> m,
                 path |-> [s \in Streams |-> "f"],
                 cfg |-> [s \in Streams |-> parse_stdio_config(m[s], "f").cfg],
                 opened |-> {s \in Streams : m[s] = "file"},
                 nonblock |-> {s \in Streams : m[s] = "pipe"},
                 osTouched |-> TRUE]

NextSlots ==
    \/ SpawnFinish
    \/ sp.pc = "done" /\ WriteStdinPipe
    \/ sp.pc = "done" /\ ChildReadStdin
    \/ sp.pc = "done" /\ ChildCloseStdin
    \/ \E s \in OutStreams : sp.pc = "done" /\ ChildWrite(s)
    \/ \E s \in OutStreams : sp.pc = "done" /\ ChildCloseOut(s)
    \/ \E s \in OutStreams : sp.pc = "done" /\ ReadStreamPipe(s)
    \/ \E s \in Streams : sp.pc = "done" /\ CloseStreamPipe(s)

SpecSlots == InitSlots /\ [][NextSlots]_vars

----------------------------------------------------------------------------

\* Properties

\* The exit code of the status the process really terminated with.
RealCode == exit_status_to_code(exitStatus)

\* C1: the kill syscall is never issued against the pid after a wait or a
\* poll on the handle has reaped the process.
C1_NoKillAfterReap == ~hist.killAfterReap

\* C2: the OS-level reap happens at most once: waitpid collects the status
\* once, no waitpid is issued for the pid after that, and a published exit
\* code stems from exactly one reap.
C2_SingleReap ==
    /\ hist.reaps <= 1
    /\ ~hist.waitSysAfterReap
    /\ cached.some => hist.reaps = 1

\* A wait or poll reached the OS-level call after another call had reaped.
C2_Witness == hist.reaps = 1 /\ hist.memoHit # 0 /\ hist.memoHit # hist.reaper

\* C3: every wait that returns once the process was reaped returns the code
\* of the real termination status, whoever reaped.
C3_SameCode ==
    \A c \in Calls :
        (op[c] = "wait" /\ pc[c] = "done" /\ proc = "reaped")
            => res[c] = R("code", RealCode)

\* A wait has returned the code although another call reaped before its
\* own child.wait().
C3_Witness ==
    /\ hist.memoHit # 0
    /\ op[hist.memoHit] = "wait"
    /\ pc[hist.memoHit] = "done"
    /\ res[hist.memoHit] = R("code", RealCode)

\* C4: a signal begun after a wait has returned an exit code or a poll has
\* returned false returns already_exited and never reaches the kill syscall
\* (stated for the calls that pass a signal number nix accepts).
C4_SignalAfterTerminal ==
    \A c \in Calls :
        (op[c] = "signal" /\ began[c].afterTerminal /\ ValidSignal(tmp[c]))
            => /\ pc[c] # "sig_kill"
               /\ pc[c] = "done" => res[c] = R("error_already_exited", 0)

\* C5: the kill syscall is never issued while cached_exit_code holds a
\* code: a signal about to kill holds the cached_exit_code lock and the
\* cache is empty, and a signal begun with the cache populated returns
\* already_exited from its check.
C5_NoKillWithCache ==
    /\ ~hist.killWithCache
    /\ \A c \in Calls :
           /\ pc[c] = "sig_kill" => ~cached.some /\ lock["cached_exit_code"] = c
           /\ (op[c] = "signal" /\ began[c].afterCache)
                 => /\ pc[c] \in {"sig_lock_cached", "done"}
                    /\ pc[c] = "done" => res[c] = R("error_already_exited", 0)

\* One signal won the race and killed, a later one found the code published.
C5_Witness ==
    /\ hist.kills = 1
    /\ cached.some
    /\ \E a, b \in Calls :
           /\ op[a] = "signal" /\ res[a] = R("ok", 0)
           /\ op[b] = "signal" /\ res[b] = R("error_already_exited", 0)

\* C6: cached_exit_code is write-once: a step taken while it holds a code
\* leaves it holding that code.
C6_WriteOnce == [][cached.some => cached' = cached]_vars

\* The cache was written a second time, by a call that had passed its cache
\* check before the code was published.
C6_Witness == hist.stores = 2 /\ cached = Some(RealCode)

\* C7: no two calls each hold one slot's lock and wait for the lock the
\* other holds.
C7_NoDeadlock ==
    ~ \E a, b \in Calls :
        /\ a # b
        /\ lock["cached_exit_code"] = a /\ pc[a] = "sig_lock_child"
        /\ lock["child"] = b /\ pc[b] \in {"wait_store", "alive_store", "wait_recheck"}

\* C8: a signal or a poll never has to wait for a blocking wait that is
\* suspended until the process terminates.
C8_OnlyWaitSuspends ==
    ~ \E a, w \in Calls :
        /\ pc[a] \in {"sig_lock_child", "alive_lock_child"}
        /\ lock["child"] = w /\ op[w] = "wait" /\ pc[w] = "wait_os"
        /\ proc = "running" /\ child.memo.kind = "none"

\* C9: once the poll that reaped the process has returned, the cache holds
\* the mapped exit code, and every wait begun after that returns this code
\* from the cache check.
C9_PollReapPublishes ==
    /\ PollReapReturned => cached = Some(RealCode)
    /\ \A c \in Calls :
           (op[c] = "wait" /\ began[c].afterPollReap)
               => /\ pc[c] \in {"wait_check", "done"}
                  /\ pc[c] = "done" => res[c] = R("code", RealCode)

\* A wait begun after the reaping poll returned has returned.
C9_Witness ==
    \E c \in Calls : op[c] = "wait" /\ began[c].afterPollReap /\ pc[c] = "done"

\* C10: no waitpid is issued for the process while the cache holds a code,
\* and a wait or poll begun with the cache populated returns from its cache
\* check without reaching the child slot.
C10_NoOsWaitAfterCache ==
    /\ ~hist.waitSysWithCache
    /\ \A c \in Calls :
           (op[c] \in {"wait", "alive"} /\ began[c].afterCache)
               => /\ pc[c] \in {"wait_check", "alive_check", "done"}
                  /\ (pc[c] = "done" /\ op[c] = "wait") => res[c] = R("code", cached.code)

\* A second wait, begun after a completed wait, has returned.
C10_Witness ==
    \E a, c \in Calls :
        /\ a # c
        /\ op[a] = "wait" /\ pc[a] = "done" /\ ~began[a].afterCache
        /\ op[c] = "wait" /\ pc[c] = "done" /\ began[c].afterCache


\* C11: a poll returns true only from its own non-blocking OS check, made
\* with the cache unset, on a process that has not terminated; every other
\* return of a poll is false.
C11_PollTrueOnlyWhileRunning ==
    [][\A c \in Calls :
          (op[c] = "alive" /\ pc[c] # "done" /\ pc'[c] = "done")
              => /\ res'[c] \in {R("bool", 0), R("bool", 1)}
                 /\ res'[c] = R("bool", 1)
                      <=> (pc[c] = "alive_os" /\ ~cached.some /\ proc = "running")]_vars

\* One poll has returned true, another one false after a failed OS query.
C11_Witness ==
    \E a, b \in Calls :
        /\ op[a] = "alive" /\ res[a] = R("bool", 1)
        /\ op[b] = "alive" /\ res[b] = R("bool", 0)
        /\ proc = "lost"


\* C13: a wait whose OS-level wait failed has returned the exit code -1,
\* and a wait returns nothing but an integer exit code or the
\* already-reaped error.
C13_WaitFailureYieldsMinusOne ==
    \A c \in Calls :
        (op[c] = "wait" /\ pc[c] = "done")
            => /\ res[c].tag \in {"code", "err_already_reaped"}
               /\ proc = "lost" => res[c] = R("code", -1)

\* C20: a call holds at most one of the five slot locks at any time.
C20_AtMostOneLock ==
    \A c \in Calls : Cardinality({l \in Locks : lock[l] = c}) <= 1


\* C14: a stream lock is only ever held by a call on that very stream and a
\* stream call holds no other lock, so a read, write or close waits for
\* nothing but a call on its own stream; the child and cached_exit_code
\* locks are only ever held by signal, wait and poll.
C14_StreamLocksIndependent ==
    /\ lock["stdin_pipe"] # 0 => op[lock["stdin_pipe"]] \in {"write_stdin", "close_stdin"}
    /\ lock["stdout_pipe"] # 0 => op[lock["stdout_pipe"]] \in {"read_stdout", "close_stdout"}
    /\ lock["stderr_pipe"] # 0 => op[lock["stderr_pipe"]] \in {"read_stderr", "close_stderr"}
    /\ lock["child"] # 0 => op[lock["child"]] \in ExitOps
    /\ lock["cached_exit_code"] # 0 => op[lock["cached_exit_code"]] \in ExitOps
    /\ \A c \in Calls :
           op[c] \notin ExitOps => Cardinality({l \in Locks : lock[l] = c}) <= 1

\* A stream call has returned while a blocking wait is suspended holding
\* the child lock.
C14_Witness ==
    \E a, w \in Calls :
        /\ op[a] \in {"write_stdin", "read_stdout", "read_stderr",
                      "close_stdin", "close_stdout", "close_stderr"}
        /\ pc[a] = "done"
        /\ op[w] = "wait" /\ pc[w] = "wait_os" /\ lock["child"] = w
        /\ proc = "running"


\* The slot a close NIF empties.
CloseSlot(o) ==
    IF o = "close_stdin" THEN "stdin_pipe"
    ELSE IF o = "close_stdout" THEN "stdout_pipe"
    ELSE "stderr_pipe"

\* C19: a close on an empty slot returns not_piped and changes no slot of
\* the handle, a close returns ok only on a slot that held a pipe end, and
\* of the closes on one stream at most one has returned ok.
C19_CloseIdempotent ==
    /\ [](\A a, b \in Calls :
             (/\ a # b
              /\ op[a] \in {"close_stdin", "close_stdout", "close_stderr"}
              /\ op[b] = op[a]
              /\ res[a] = R("ok", 0))
                 => res[b] # R("ok", 0))
    /\ [][\A c \in Calls :
             (/\ op[c] \in {"close_stdin", "close_stdout", "close_stderr"}
              /\ pc[c] # "done" /\ pc'[c] = "done")
                 => IF pipe[CloseSlot(op[c])]
                    THEN res'[c] = R("ok", 0)
                    ELSE /\ res'[c] = R("error_not_piped", 0)
                         /\ pipe' = pipe /\ child' = child /\ cached' = cached]_vars

\* Two closes on one stream have returned: one ok, the other not_piped.
C19_Witness ==
    \E a, b \in Calls :
        /\ op[a] \in {"close_stdin", "close_stdout", "close_stderr"}
        /\ op[b] = op[a]
        /\ res[a] = R("ok", 0)
        /\ res[b] = R("error_not_piped", 0)


\* The exit code the convention gives the status the process ended with.
ConventionCode ==
    CASE exitStatus.kind = "exited" -> exitStatus.val
      [] exitStatus.kind = "signaled" -> exitStatus.val + 128
      [] OTHER -> 0 - 1

\* C12: the code computed from the termination status is the program's
\* exit code, 128 + signal number, or -1 when the status has neither
\* (exit(7) gives 7, signal 9 gives 137), in wait and in poll alike.
C12_ExitCodeMapping ==
    /\ \A c \in Calls :
           /\ pc[c] \in {"wait_store", "alive_store"} => tmp[c] = ConventionCode
           /\ (op[c] = "wait" /\ pc[c] = "done") => res[c] = R("code", ConventionCode)
    /\ cached.some => cached.code = ConventionCode
    /\ (cached.some /\ exitStatus = Exited(7)) => cached.code = 7
    /\ (cached.some /\ exitStatus = Signaled(9)) => cached.code = 137
    /\ (cached.some /\ exitStatus = OtherStatus) => cached.code = -1

\* A poll collected a process killed by signal 9 and a wait returned 137.
C12_Witness ==
    /\ exitStatus = Signaled(9)
    /\ hist.reaper # 0 /\ op[hist.reaper] = "alive"
    /\ \E c \in Calls : op[c] = "wait" /\ res[c] = R("code", 137)



\* C15: when spawn_nif fails, no handle exists and no process it created is
\* left running or unreaped.
C15_NoLeakOnSpawnFailure ==
    (sp.pc = "done" /\ sp.result # "ok")
        => /\ ~child.some
           /\ proc \notin {"running", "zombie"}

\* A stream's mode is none of the four, or it is file mode with no path.
InvalidConfig ==
    \E s \in Streams :
        \/ sp.mode[s] \notin {"null", "pipe", "inherit", "file"}
        \/ sp.mode[s] = "file" /\ sp.path[s] = ""

\* C16: with an invalid configuration on any stream, spawn_nif never reaches
\* the OS: no file is opened or created, no process exists, no handle is made,
\* and the call ends with the configuration error.
C16_ConfigErrorBeforeOs ==
    InvalidConfig
        => /\ ~sp.osTouched
           /\ sp.opened = {}
           /\ proc = "none"
           /\ ~child.some
           /\ sp.pc = "done" => sp.result = "err_config"

C16_Witness ==
    /\ sp.pc = "done"
    /\ sp.result = "err_config"
    /\ sp.mode["stdin_pipe"] = "file" /\ sp.path["stdin_pipe"] = "f"
    /\ sp.mode["stdout_pipe"] = "file" /\ sp.path["stdout_pipe"] = "f"
    /\ sp.mode["stderr_pipe"] = "file" /\ sp.path["stderr_pipe"] = ""


\* C17: whatever the buffer and the capacity of the pipe, the bytes the child
\* has read, the bytes waiting in the pipe and the bytes the caller still has
\* to submit are, in this order, the original buffer; so when the caller is
\* told ok, the child's side holds the buffer byte for byte.
C17_PartialWritesReconstruct ==
    /\ io.got \o io.inbuf \o io.rest = io.data
    /\ io.wres = R("ok", 0) => io.got \o io.inbuf = io.data

C17_Witness ==
    /\ io.wres = R("ok", 0)
    /\ Len(io.data) = MaxLen
    /\ io.partials >= 2
    /\ io.blocked
    /\ io.got = io.data

\* C18: on a stream whose slot is not closed, once a read has returned eof the
\* most recent read has returned eof.
C18_EofTerminal ==
    \A s \in OutStreams :
        (io.eofSeen[s] /\ pipe[s]) => io.rres[s] = R("eof", 0)

C18_Witness ==
    /\ pipe["stdout_pipe"]
    /\ io.eofReads["stdout_pipe"] = 2
    /\ io.made > 0
    /\ pipe["stderr_pipe"]
    /\ io.rres["stderr_pipe"].tag = "ok"


\* C21: once the wait or poll that collected the status of the process has
\* returned, the child slot no longer holds the process object.
C21_SlotEmptyOnceReaped ==
    (hist.reaper # 0 /\ pc[hist.reaper] = "done") => ~child.some


\* C22: the step by which a poll returns true changes neither the child
\* slot, nor the cache, nor a stream slot, nor the process: nothing is
\* collected, so the status is still there for a later wait or poll.
C22_PollAliveConsumesNothing ==
    [][\A c \in Calls :
          (op[c] = "alive" /\ pc[c] # "done" /\ pc'[c] = "done"
                /\ res'[c] = R("bool", 1))
              => /\ child' = child
                 /\ cached' = cached
                 /\ pipe' = pipe
                 /\ proc' = proc
                 /\ exitStatus' = exitStatus
                 /\ hist'.reaps = hist.reaps]_vars

\* A poll has returned true and a wait begun later has collected the status.
C22_Witness ==
    \E a, c \in Calls :
        /\ a < c
        /\ op[a] = "alive" /\ pc[a] = "done" /\ res[a] = R("bool", 1)
        /\ op[c] = "wait" /\ pc[c] = "done" /\ hist.reaper = c
        /\ res[c] = R("code", RealCode)


C26_CacheImpliesReaped ==
    /\ cached.some => /\ proc = "reaped"
                      /\ hist.reaps = 1
                      /\ cached.code = RealCode
    /\ \A c \in Calls :
           (op[c] = "signal" /\ pc[c] = "done" /\ res[c] = R("error_already_exited", 0))
               => proc = "reaped"

\* A poll collected the status and a signal was refused afterwards.
C26_Witness ==
    /\ hist.reaper # 0
    /\ op[hist.reaper] = "alive"
    /\ \E c \in Calls :
           op[c] = "signal" /\ pc[c] = "done" /\ res[c] = R("error_already_exited", 0)


\* C27: no step of a signal call changes the child slot, the cache, a stream
\* slot or the state of the process, and none collects a status; a signal
\* call that has returned holds no lock; a signal call given an invalid
\* signal number never reaches the kill syscall.
C27_SignalChangesNoSlot ==
    /\ [](\A c \in Calls :
             op[c] = "signal"
                 => /\ pc[c] = "done" => \A l \in Locks : lock[l] # c
                    /\ ~ValidSignal(tmp[c]) => pc[c] # "sig_kill")
    /\ [][\A c \in Calls :
             (op[c] = "signal" /\ pc'[c] # pc[c])
                 => /\ child' = child
                    /\ cached' = cached
                    /\ pipe' = pipe
                    /\ proc' = proc
                    /\ hist'.reaps = hist.reaps
                    /\ hist'.stores = hist.stores
                    /\ ~ValidSignal(tmp[c]) => hist'.kills = hist.kills]_vars

\* One signal call was refused for its signal number, another one delivered
\* its signal, and the child has died of it; nothing has been collected.
C27_Witness ==
    /\ proc = "zombie"
    /\ exitStatus \in {Signaled(s) : s \in SignalInputs}
    /\ hist.kills = 1
    /\ \E a, b \in Calls :
           /\ op[a] = "signal" /\ pc[a] = "done" /\ res[a] = R("ok", 0)
           /\ op[b] = "signal" /\ pc[b] = "done" /\ res[b] = R("err_invalid_signal", 0)


\* A step of write_stdin_nif: the caller's side of the pipe state changes,
\* the child's does not.
WriteStep ==
    /\ io' # io
    /\ io'.got = io.got
    /\ io'.readerOpen = io.readerOpen

\* C24 as stated: a write call hands the pipe one prefix of its buffer, of n
\* bytes, and reports: not_piped on an empty slot; broken_pipe when the read
\* end is closed, with n = 0; ok exactly when n is the length of the buffer;
\* would_block when n = 0 because the pipe is full; partial n otherwise.
C24_WriteClassificationAsStated ==
    [][WriteStep
          => LET n == Len(io'.inbuf) - Len(io.inbuf)
                 len == Len(io.rest)
             IN  /\ n \in 0..len
                 /\ io'.inbuf = io.inbuf \o SubSeq(io.rest, 1, n)
                 /\ IF ~pipe["stdin_pipe"]
                    THEN n = 0 /\ io'.wres = R("error_not_piped", 0)
                    ELSE IF ~io.readerOpen
                    THEN n = 0 /\ io'.wres = R("error_broken_pipe", 0)
                    ELSE IF n = len
                    THEN io'.wres = R("ok", 0)
                    ELSE IF n = 0
                    THEN io'.wres = R("would_block", 0) /\ Len(io.inbuf) = io.cap
                    ELSE io'.wres = R("partial", n)]_vars

\* C24, amended: as stated for a buffer that is not empty; a write of an
\* empty buffer on a non-empty slot is reported ok, or, only when the read
\* end is closed, broken_pipe.
C24_WriteClassification ==
    [][WriteStep
          => LET n == Len(io'.inbuf) - Len(io.inbuf)
                 len == Len(io.rest)
             IN  /\ n \in 0..len
                 /\ io'.inbuf = io.inbuf \o SubSeq(io.rest, 1, n)
                 /\ IF ~pipe["stdin_pipe"]
                    THEN n = 0 /\ io'.wres = R("error_not_piped", 0)
                    ELSE IF len = 0
                    THEN \/ io'.wres = R("ok", 0)
                         \/ ~io.readerOpen /\ io'.wres = R("error_broken_pipe", 0)
                    ELSE IF ~io.readerOpen
                    THEN n = 0 /\ io'.wres = R("error_broken_pipe", 0)
                    ELSE IF n = len
                    THEN io'.wres = R("ok", 0)
                    ELSE IF n = 0
                    THEN io'.wres = R("would_block", 0) /\ Len(io.inbuf) = io.cap
                    ELSE io'.wres = R("partial", n)]_vars

\* The caller was told would_block and partial, the child then closed its
\* stdin, and the next write was told broken_pipe.
C24_Witness ==
    /\ io.wres = R("error_broken_pipe", 0)
    /\ io.blocked
    /\ io.partials >= 1
    /\ Len(io.rest) > 0


\* C23: on a handle, a stream slot holds a pipe end exactly when spawn
\* configured the stream as Pipe and no close of it has succeeded; a read or
\* a write on an empty slot is answered not_piped and moves no byte of any
\* pipe, and not_piped is the answer on an empty slot only.
C23_SlotHoldsPipeUntilClosed ==
    /\ [](sp.pc = "done"
            => \A s \in Streams :
                   pipe[s] <=> (sp.cfg[s] = "Pipe" /\ s \notin io.closedOk))
    /\ [][/\ \A s \in OutStreams :
                io'.rres[s] # io.rres[s]
                    => IF pipe[s]
                       THEN io'.rres[s] # R("error_not_piped", 0)
                       ELSE io' = [io EXCEPT !.rres[s] = R("error_not_piped", 0)]
          /\ io'.wres # io.wres
                => IF pipe["stdin_pipe"]
                   THEN io'.wres # R("error_not_piped", 0)
                   ELSE io' = [io EXCEPT !.wres = R("error_not_piped", 0)]]_vars

\* stdin and stderr were piped, stdout went to a file; stderr was read from
\* and then closed; reads on both and a write on the closed stdin were
\* answered not_piped.
C23_Witness ==
    /\ sp.cfg = [stdin_pipe |-> "Pipe", stdout_pipe |-> "File", stderr_pipe |-> "Pipe"]
    /\ io.closedOk = {"stdin_pipe", "stderr_pipe"}
    /\ io.rres = [stdout_pipe |-> R("error_not_piped", 0),
                  stderr_pipe |-> R("error_not_piped", 0)]
    /\ io.wres = R("error_not_piped", 0)
    /\ io.made > 0
    /\ Len(io.inbuf) + Len(io.got) > 0

====
